---------------------------- MODULE Spec2Model ----------------------------
(***************************************************************************)
(* The three entrypoints of the AgentCore onboarding sample:               *)
(*   02_runtime/deployment/invoke.py        batch invoke                   *)
(*   02_runtime/deployment/invoke_async.py  streaming invoke               *)
(*   03_identity/test_identity_agent.py     identity test client           *)
(* A behaviour of Spec is one run of one entrypoint.  SpecPad applies the  *)
(* padding computation and the base64 decoder of log_jwt_token_details to  *)
(* every bounded string.                                                   *)
(***************************************************************************)
EXTENDS Naturals, Sequences, FiniteSets

(* ------------------------------ bounds --------------------------------- *)
MaxEvents == 3
MaxTokenLen == 6
MaxSegLen == 5
MaxToolCalls == 1

(* ------------------------ program constants ---------------------------- *)
BASE64_BLOCK_SIZE == 4

(* ------------------------- environment values -------------------------- *)
None == "None"
NoToken == <<"None">>
Prompts == {"p1", "p2"}
OtherFields == {"sessionId"}
Events == {"a", "b", "c"}
Results == {"r1", "r2"}
AgentErrors == {"AgentError"}
Archs == {"arch1", "arch2"}
DefaultArchitecture == "arch1"
SessionIds == {"t1", "t2"}
Texts == {"", "estimate"}
Statuses == {200, 204, 304, 404, 503}
TokenChars == {"A", "."}
B64Chars == {"A", "=", "-"}
ContentKinds == {"json", "not_utf8", "not_json"}

(* --------------------------- generic helpers --------------------------- *)
SeqsUpTo(S, n) == UNION {[1..k -> S] : k \in 0..n}

IsPrefix(s, t) == Len(s) <= Len(t) /\ SubSeq(t, 1, Len(s)) = s

Min(a, b) == IF a <= b THEN a ELSE b

\* dict.get(key): the value, or None when the key is absent
Get(d, key) == IF key \in DOMAIN d THEN d[key] ELSE None

\* the payloads the runtime host may hand to an entrypoint
Payloads ==
    UNION {[K -> Prompts] : K \in SUBSET ({"prompt"} \cup OtherFields)}

VARIABLES
    program,        \* which entrypoint this run executes
    pc,             \* position in the entrypoint
    payload,        \* invoke(payload)
    user_input,     \* local of invoke
    agents,         \* number of AWSCostEstimatorAgent objects constructed
    calls,          \* calls made on the estimation agent, in order
    outcome,        \* how invoke ended: <<kind, value>>
    upstream,       \* the events estimate_costs_stream will produce
    upstreamEnd,    \* how the upstream sequence ends: "stop" or "raise"
    pulled,         \* number of events taken from the upstream so far
    event,          \* loop variable of the async for
    emitted,        \* events yielded to the caller, in order
    configFile,     \* inbound_authorizer.json on disk
    config,         \* the loaded JSON object
    configReads,    \* number of times the config file was opened
    OAUTH_PROVIDER,
    OAUTH_SCOPE,
    RUNTIME_URL,
    binding,        \* arguments bound by @requires_access_token
    toolDefs,       \* tools defined by @tool
    agentTools,     \* tools handed to Agent(...)
    agentPrompt,    \* argument of agent.invoke_async
    toolCalls,      \* number of tool invocations made by the agent
    tokenRequests,  \* token requests sent to AgentCore Identity, in order
    toolOutcome,    \* what cost_estimator_tool handed back to the agent
    architecture_description,
    access_token,
    session_id,
    i,              \* loop index of log_jwt_token_details
    decodeLog,      \* one record per decode attempt of the current call
    posts,          \* requests.post calls of the current call
    response,
    callOutcome,    \* how _cost_estimator_with_auth ended
    part,
    part_for_decode,
    decoded

runtimeVars == <<payload, user_input, agents, calls, outcome>>
streamVars == <<upstream, upstreamEnd, pulled, event, emitted>>
cfgVars == <<configFile, config, configReads, OAUTH_PROVIDER, OAUTH_SCOPE, RUNTIME_URL>>
setupVars == <<binding, toolDefs, agentTools, agentPrompt>>
agentVars == <<toolCalls, tokenRequests, toolOutcome>>
callVars == <<architecture_description, access_token, session_id, i, decodeLog,
              posts, response, callOutcome>>
padVars == <<part, part_for_decode, decoded>>
identityVars == <<cfgVars, setupVars, agentVars, callVars, padVars>>
vars == <<program, pc, runtimeVars, streamVars, identityVars>>

NoOutcome == <<"none", None>>

(* ------------------- 02_runtime/deployment/invoke.py ------------------- *)
\* mutant: the prompt is read under the wrong key
UserInputWrongKey(p) == Get(p, "sessionId")

UserInput(p) == Get(p, "prompt")

\* one call on the agent: the operation, its argument and the agent's answer
AgentCall(op, arg, answer) == [op |-> op, arg |-> arg, answer |-> answer]

InvokeReturn(result) == <<"return", result>>

InvokeRaise(err) == <<"raise", err>>

BatchStart ==
    /\ program = "batch" /\ pc = "start"
    /\ user_input' = UserInput(payload)
    /\ agents' = agents + 1
    /\ pc' = "estimate"
    /\ UNCHANGED <<program, payload, calls, outcome, streamVars, identityVars>>

BatchEstimateReturns ==
    /\ program = "batch" /\ pc = "estimate"
    /\ \E r \in Results :
        /\ calls' = Append(calls, AgentCall("estimate_costs", user_input,
                                            <<"return", r>>))
        /\ outcome' = InvokeReturn(r)
    /\ pc' = "done"
    /\ UNCHANGED <<program, payload, user_input, agents, streamVars, identityVars>>

BatchEstimateRaises ==
    /\ program = "batch" /\ pc = "estimate"
    /\ \E e \in AgentErrors :
        /\ calls' = Append(calls, AgentCall("estimate_costs", user_input,
                                            <<"raise", e>>))
        /\ outcome' = InvokeRaise(e)
    /\ pc' = "done"
    /\ UNCHANGED <<program, payload, user_input, agents, streamVars, identityVars>>

(* ---------------- 02_runtime/deployment/invoke_async.py ---------------- *)
\* mutant: the newest event is put in front of the earlier ones
ForwardNewestFirst(out, ev) == <<ev>> \o out

Forward(out, ev) == Append(out, ev)

StreamStart ==
    /\ program = "stream" /\ pc = "start"
    /\ user_input' = UserInput(payload)
    /\ agents' = agents + 1
    /\ calls' = Append(calls, AgentCall("estimate_costs_stream",
                                        UserInput(payload), <<"stream", None>>))
    /\ pc' = "next"
    /\ UNCHANGED <<program, payload, outcome, streamVars, identityVars>>

\* async for: the upstream produces its next event
StreamNext ==
    /\ program = "stream" /\ pc = "next"
    /\ pulled < Len(upstream)
    /\ event' = upstream[pulled + 1]
    /\ pulled' = pulled + 1
    /\ pc' = "yield"
    /\ UNCHANGED <<program, runtimeVars, upstream, upstreamEnd, emitted, identityVars>>

\* yield (event): the event is handed to the caller and invoke suspends
StreamYield ==
    /\ program = "stream" /\ pc = "yield"
    /\ emitted' = Forward(emitted, event)
    /\ pc' = "suspended"
    /\ UNCHANGED <<program, runtimeVars, upstream, upstreamEnd, pulled, event,
                   identityVars>>

\* the caller asks for the next event: invoke resumes after the yield
StreamResume ==
    /\ program = "stream" /\ pc = "suspended"
    /\ pc' = "next"
    /\ UNCHANGED <<program, runtimeVars, streamVars, identityVars>>

\* the upstream is exhausted: the async for ends and invoke finishes
StreamStop ==
    /\ program = "stream" /\ pc = "next"
    /\ pulled = Len(upstream) /\ upstreamEnd = "stop"
    /\ outcome' = <<"return", None>>
    /\ pc' = "done"
    /\ UNCHANGED <<program, payload, user_input, agents, calls, streamVars, identityVars>>

\* the upstream raises instead of producing: the error leaves invoke
StreamRaise ==
    /\ program = "stream" /\ pc = "next"
    /\ pulled = Len(upstream) /\ upstreamEnd = "raise"
    /\ \E e \in AgentErrors : outcome' = InvokeRaise(e)
    /\ pc' = "done"
    /\ UNCHANGED <<program, payload, user_input, agents, calls, streamVars, identityVars>>

\* the caller closes the generator while it is suspended at the yield
StreamCancel ==
    /\ program = "stream" /\ pc = "suspended"
    /\ outcome' = <<"cancelled", None>>
    /\ pc' = "done"
    /\ UNCHANGED <<program, payload, user_input, agents, calls, streamVars, identityVars>>

(* ------------------ 03_identity/test_identity_agent.py ----------------- *)
(* Strings the client inspects character by character (the access token   *)
(* and its segments) are sequences of characters: "A" stands for any       *)
(* character of the standard base64 alphabet, "-" for any other character  *)
(* except '.' and '=' (the url-safe '-' and '_' among them).               *)

Section == [provider |-> "name", cognito |-> "scope", runtime |-> "url"]
SectionValue == [provider |-> "prov", cognito |-> "scope1", runtime |-> "https://rt"]
SectionNames == {"provider", "cognito", "runtime"}

EmptyObject == [k \in {} |-> ""]

\* a section of the file: an object without the key, or with it
SectionObjects(s) == {EmptyObject, [k \in {Section[s]} |-> SectionValue[s]]}

\* the JSON documents the file may hold: any of the three sections may be
\* absent, and a section the client does not read may be present
ConfigJsons ==
    UNION {{c \in [K -> UNION {SectionObjects(s) : s \in SectionNames}] :
                /\ \A s \in K \cap SectionNames : c[s] \in SectionObjects(s)
                /\ "gateway" \in K => c["gateway"] = EmptyObject} :
           K \in SUBSET (SectionNames \cup {"gateway"})}

ConfigFiles ==
    {[state |-> "missing", json |-> EmptyObject],
     [state |-> "invalid", json |-> EmptyObject]}
    \cup {[state |-> "ok", json |-> c] : c \in ConfigJsons}

HasKey(c, s, k) == s \in DOMAIN c /\ k \in DOMAIN c[s]

\* mutant: a missing key yields a default instead of KeyError
LookupWithDefault(c, s, k) ==
    IF HasKey(c, s, k) THEN <<"ok", c[s][k]>> ELSE <<"ok", "">>

\* config[s][k]: the value, or KeyError
Lookup(c, s, k) ==
    IF HasKey(c, s, k) THEN <<"ok", c[s][k]>> ELSE <<"KeyError", "">>

\* str.split("."): the segments between the dots, at least one
RECURSIVE SplitFrom(_, _, _)
SplitFrom(s, k, cur) ==
    IF k > Len(s) THEN <<cur>>
    ELSE IF s[k] = "." THEN <<cur>> \o SplitFrom(s, k + 1, <<>>)
    ELSE SplitFrom(s, k + 1, Append(cur, s[k]))

Split(s) == SplitFrom(s, 1, <<>>)

\* mutant: token_parts[:3]
FirstThree(parts) == SubSeq(parts, 1, Min(3, Len(parts)))

\* token_parts[:2]
FirstTwo(parts) == SubSeq(parts, 1, Min(2, Len(parts)))

\* mutant: the remainder itself is used as the number of padding characters
NumPaddingCharsRemainder(p) ==
    IF Len(p) % BASE64_BLOCK_SIZE = 0 THEN BASE64_BLOCK_SIZE
    ELSE Len(p) % BASE64_BLOCK_SIZE

NumPaddingChars(p) == BASE64_BLOCK_SIZE - (Len(p) % BASE64_BLOCK_SIZE)

PartForDecode(p) ==
    IF NumPaddingChars(p) # BASE64_BLOCK_SIZE
    THEN p \o [k \in 1..NumPaddingChars(p) |-> "="]
    ELSE p

\* base64.b64decode (validate=False): characters outside the alphabet are
\* discarded; the scan stops at the padding that completes a quad; quad is
\* the number of data characters in the open quad when the scan ends.
RECURSIVE B64Scan(_, _, _, _, _)
B64Scan(s, k, quad, pads, ndata) ==
    IF k > Len(s) THEN [quad |-> quad, ndata |-> ndata]
    ELSE IF s[k] = "=" THEN
        IF quad >= 2 /\ quad + pads + 1 >= 4
        THEN [quad |-> 0, ndata |-> ndata]
        ELSE B64Scan(s, k + 1, quad, IF quad >= 2 THEN pads + 1 ELSE pads, ndata)
    ELSE IF s[k] # "A" THEN B64Scan(s, k + 1, quad, pads, ndata)
    ELSE B64Scan(s, k + 1, (quad + 1) % 4, 0, ndata + 1)

\* ok: no binascii.Error; nbytes: length of the decoded bytes
B64Decode(s) ==
    LET r == B64Scan(s, 1, 0, 0, 0)
    IN  [ok |-> r.quad = 0, nbytes |-> (r.ndata * 6) \div 8]

NotDecoded == [ok |-> FALSE, nbytes |-> 0]

\* what the decoded bytes can be: empty bytes are not a JSON document
ContentOf(d) == IF d.nbytes = 0 THEN {"not_json"} ELSE ContentKinds

\* the log record of one iteration of the loop of log_jwt_token_details
DecodeRecord(idx, p, kind) ==
    LET d == B64Decode(PartForDecode(p))
    IN  [index |-> idx,
         input |-> PartForDecode(p),
         level |-> IF d.ok /\ kind = "json" THEN "info" ELSE "error",
         cause |-> IF ~d.ok THEN "binascii.Error"
                   ELSE IF kind = "not_utf8" THEN "UnicodeDecodeError"
                   ELSE IF kind = "not_json" THEN "JSONDecodeError"
                   ELSE "none"]

\* mutant: `if access_token is not None:`
TruthyIsNotNone(t) == t # NoToken

\* `if access_token:`
Truthy(t) == t # NoToken /\ t # <<>>

\* f"{access_token}"
Format(t) == IF t = NoToken THEN <<"N", "o", "n", "e">> ELSE t

\* mutant: the trace header gets an identifier of its own
HeadersOwnTraceId(token, sid) ==
    [Authorization |-> <<"Bearer ">> \o Format(token),
     ContentType |-> "application/json",
     SessionId |-> sid,
     TraceId |-> "trace-0"]

Headers(token, sid) ==
    [Authorization |-> <<"Bearer ">> \o Format(token),
     ContentType |-> "application/json",
     SessionId |-> sid,
     TraceId |-> sid]

\* json.dumps({"prompt": architecture_description})
Body(arch) == <<"{\"prompt\": \"", arch, "\"}">>

\* mutant: the bearer value is taken from what the caller supplied
RequestTokenFromCaller(url, token, sid, arch) ==
    [url |-> url, headers |-> Headers(<<arch>>, sid), data |-> Body(arch)]

Request(url, token, sid, arch) ==
    [url |-> url, headers |-> Headers(token, sid), data |-> Body(arch)]

\* response.raise_for_status(): HTTPError for a 4xx or 5xx status
RaisesForStatus(status) == 400 <= status /\ status < 600

NoResponse == [status |-> 0, text |-> ""]
Responses == [status : Statuses, text : Texts]

InjectedTokens == SeqsUpTo(TokenChars, MaxTokenLen) \cup {NoToken}

ToolSpec ==
    [name |-> "cost_estimator_tool",
     description |-> "Estimate cost of AWS from architecture description",
     params |-> {"architecture_description"}]

(* module level: the with-block that loads the configuration *)
Fatal(err) ==
    /\ outcome' = <<"raise", err>>
    /\ pc' = "fatal"

LoadOpen ==
    /\ program = "identity" /\ pc = "start"
    /\ IF configFile.state = "missing"
       THEN Fatal("FileNotFoundError") /\ UNCHANGED <<config, configReads>>
       ELSE /\ configReads' = configReads + 1
            /\ IF configFile.state = "invalid"
               THEN Fatal("JSONDecodeError") /\ UNCHANGED config
               ELSE config' = configFile.json /\ pc' = "provider"
                    /\ UNCHANGED outcome
    /\ UNCHANGED <<program, payload, user_input, agents, calls, streamVars,
                   configFile, OAUTH_PROVIDER, OAUTH_SCOPE, RUNTIME_URL,
                   setupVars, agentVars, callVars, padVars>>

LoadProvider ==
    /\ program = "identity" /\ pc = "provider"
    /\ IF Lookup(config, "provider", "name")[1] = "ok"
       THEN OAUTH_PROVIDER' = Lookup(config, "provider", "name")[2] /\ pc' = "scope"
            /\ UNCHANGED outcome
       ELSE Fatal("KeyError") /\ UNCHANGED OAUTH_PROVIDER
    /\ UNCHANGED <<program, payload, user_input, agents, calls, streamVars,
                   configFile, config, configReads, OAUTH_SCOPE, RUNTIME_URL,
                   setupVars, agentVars, callVars, padVars>>

LoadScope ==
    /\ program = "identity" /\ pc = "scope"
    /\ IF Lookup(config, "cognito", "scope")[1] = "ok"
       THEN OAUTH_SCOPE' = Lookup(config, "cognito", "scope")[2] /\ pc' = "url"
            /\ UNCHANGED outcome
       ELSE Fatal("KeyError") /\ UNCHANGED OAUTH_SCOPE
    /\ UNCHANGED <<program, payload, user_input, agents, calls, streamVars,
                   configFile, config, configReads, OAUTH_PROVIDER, RUNTIME_URL,
                   setupVars, agentVars, callVars, padVars>>

LoadUrl ==
    /\ program = "identity" /\ pc = "url"
    /\ IF Lookup(config, "runtime", "url")[1] = "ok"
       THEN RUNTIME_URL' = Lookup(config, "runtime", "url")[2] /\ pc' = "decorate"
            /\ UNCHANGED outcome
       ELSE Fatal("KeyError") /\ UNCHANGED RUNTIME_URL
    /\ UNCHANGED <<program, payload, user_input, agents, calls, streamVars,
                   configFile, config, configReads, OAUTH_PROVIDER, OAUTH_SCOPE,
                   setupVars, agentVars, callVars, padVars>>

(* module level: the two decorators *)
Decorate ==
    /\ program = "identity" /\ pc = "decorate"
    /\ binding' = [provider_name |-> OAUTH_PROVIDER,
                   scopes |-> <<OAUTH_SCOPE>>,
                   auth_flow |-> "M2M",
                   force_authentication |-> FALSE]
    /\ toolDefs' = {ToolSpec}
    /\ pc' = "main"
    /\ UNCHANGED <<program, runtimeVars, streamVars, cfgVars, agentTools,
                   agentPrompt, agentVars, callVars, padVars>>

(* main *)
Main ==
    /\ program = "identity" /\ pc = "main"
    /\ \E a \in Archs : agentPrompt' = a
    /\ agentTools' = toolDefs
    /\ pc' = "agent"
    /\ UNCHANGED <<program, runtimeVars, streamVars, cfgVars, binding,
                   toolDefs, agentVars, callVars, padVars>>

\* the agent selects the tool and supplies its declared parameters;
\* cost_estimator_tool calls the decorated function, whose wrapper asks
\* AgentCore Identity for a token
AgentCallsTool ==
    /\ program = "identity" /\ pc = "agent"
    /\ toolCalls < MaxToolCalls
    /\ \E t \in agentTools : \E args \in [t.params -> Archs] :
        architecture_description' = args["architecture_description"]
    /\ toolCalls' = toolCalls + 1
    /\ tokenRequests' = Append(tokenRequests, binding)
    /\ callOutcome' = NoOutcome
    /\ pc' = "token"
    /\ UNCHANGED <<program, runtimeVars, streamVars, cfgVars, setupVars,
                   toolOutcome, access_token, session_id, i, decodeLog,
                   posts, response, padVars>>

\* the wrapper injects the token and the function body starts
TokenInjected ==
    /\ program = "identity" /\ pc = "token"
    /\ \E t \in InjectedTokens : access_token' = t
    /\ \E sid \in SessionIds : session_id' = sid
    /\ i' = 0
    /\ pc' = IF Truthy(access_token') THEN "log" ELSE "post"
    /\ UNCHANGED <<program, runtimeVars, streamVars, cfgVars, setupVars,
                   agentVars, architecture_description, decodeLog, posts,
                   response, callOutcome, padVars>>

\* the token request fails: the function body never runs
TokenFails ==
    /\ program = "identity" /\ pc = "token"
    /\ callOutcome' = <<"raise", "TokenError">>
    /\ pc' = "tool_return"
    /\ UNCHANGED <<program, runtimeVars, streamVars, cfgVars, setupVars,
                   agentVars, architecture_description, access_token,
                   session_id, i, decodeLog, posts, response, padVars>>

\* mutant: `except binascii.Error`
CatchesBase64Only(cause) == cause = "binascii.Error"

\* the exception classes the handler of log_jwt_token_details catches
Catches(cause) == cause \in {"binascii.Error", "UnicodeDecodeError", "JSONDecodeError"}

\* one iteration of the loop of log_jwt_token_details
LogPart ==
    /\ program = "identity" /\ pc = "log"
    /\ i < Len(FirstTwo(Split(access_token)))
    /\ LET p == FirstTwo(Split(access_token))[i + 1]
       IN  /\ part' = p
           /\ part_for_decode' = PartForDecode(p)
           /\ decoded' = B64Decode(PartForDecode(p))
           /\ \E kind \in ContentOf(B64Decode(PartForDecode(p))) :
                LET rec == DecodeRecord(i, p, kind)
                IN  IF rec.level = "error" /\ ~Catches(rec.cause)
                    THEN /\ callOutcome' = <<"raise", rec.cause>>
                         /\ pc' = "tool_return"
                         /\ UNCHANGED <<i, decodeLog>>
                    ELSE /\ decodeLog' = Append(decodeLog, rec)
                         /\ i' = i + 1
                         /\ UNCHANGED <<pc, callOutcome>>
    /\ UNCHANGED <<program, runtimeVars, streamVars, cfgVars, setupVars,
                   agentVars, architecture_description, access_token,
                   session_id, posts, response>>

\* the loop is over: log_jwt_token_details returns
LogDone ==
    /\ program = "identity" /\ pc = "log"
    /\ i = Len(FirstTwo(Split(access_token)))
    /\ pc' = "post"
    /\ UNCHANGED <<program, runtimeVars, streamVars, identityVars>>

\* requests.post(...) answers; response.raise_for_status();
\* return response.text
PostAnswered ==
    /\ program = "identity" /\ pc = "post"
    /\ posts' = Append(posts, Request(RUNTIME_URL, access_token, session_id,
                                      architecture_description))
    /\ \E r \in Responses :
        /\ response' = r
        /\ callOutcome' = IF RaisesForStatus(r.status)
                          THEN <<"raise", "HTTPError">>
                          ELSE <<"return", r.text>>
    /\ pc' = "tool_return"
    /\ UNCHANGED <<program, runtimeVars, streamVars, cfgVars, setupVars,
                   agentVars, architecture_description, access_token,
                   session_id, i, decodeLog, padVars>>

\* requests.post(...) raises: no response was received
PostFails ==
    /\ program = "identity" /\ pc = "post"
    /\ posts' = Append(posts, Request(RUNTIME_URL, access_token, session_id,
                                      architecture_description))
    /\ callOutcome' = <<"raise", "ConnectionError">>
    /\ pc' = "tool_return"
    /\ UNCHANGED <<program, runtimeVars, streamVars, cfgVars, setupVars,
                   agentVars, architecture_description, access_token,
                   session_id, i, decodeLog, response, padVars>>

\* return await _cost_estimator_with_auth(architecture_description)
ToolResult(o) == o

\* cost_estimator_tool ends; the locals of the call are gone
ToolReturn ==
    /\ program = "identity" /\ pc = "tool_return"
    /\ toolOutcome' = ToolResult(callOutcome)
    /\ architecture_description' = None
    /\ access_token' = NoToken
    /\ session_id' = None
    /\ i' = 0
    /\ decodeLog' = <<>>
    /\ posts' = <<>>
    /\ response' = NoResponse
    /\ part' = <<>> /\ part_for_decode' = <<>> /\ decoded' = NotDecoded
    /\ pc' = "agent"
    /\ UNCHANGED <<program, runtimeVars, streamVars, cfgVars, setupVars,
                   toolCalls, tokenRequests, callOutcome>>

\* agent.invoke_async returns: main logs success
AgentFinishes ==
    /\ program = "identity" /\ pc = "agent"
    /\ outcome' = <<"return", None>>
    /\ pc' = "done"
    /\ UNCHANGED <<program, payload, user_input, agents, calls, streamVars,
                   identityVars>>

\* agent.invoke_async raises: the error leaves main
AgentRaises ==
    /\ program = "identity" /\ pc = "agent"
    /\ \E e \in AgentErrors : outcome' = <<"raise", e>>
    /\ pc' = "done"
    /\ UNCHANGED <<program, payload, user_input, agents, calls, streamVars,
                   identityVars>>

(* the padding computation and the decoder, applied to one string *)
PadApply ==
    /\ program = "padding" /\ pc = "start"
    /\ part_for_decode' = PartForDecode(part)
    /\ pc' = "padded"
    /\ UNCHANGED <<program, runtimeVars, streamVars, cfgVars, setupVars,
                   agentVars, callVars, part, decoded>>

PadDecode ==
    /\ program = "padding" /\ pc = "padded"
    /\ decoded' = B64Decode(part_for_decode)
    /\ pc' = "decoded"
    /\ UNCHANGED <<program, runtimeVars, streamVars, cfgVars, setupVars,
                   agentVars, callVars, part, part_for_decode>>

InitCommon ==
    /\ pc = "start"
    /\ user_input = None
    /\ agents = 0
    /\ calls = <<>>
    /\ outcome = NoOutcome
    /\ pulled = 0
    /\ event = None
    /\ emitted = <<>>
    /\ config = EmptyObject
    /\ configReads = 0
    /\ OAUTH_PROVIDER = ""
    /\ OAUTH_SCOPE = ""
    /\ RUNTIME_URL = ""
    /\ binding = [provider_name |-> "", scopes |-> <<>>, auth_flow |-> "",
                  force_authentication |-> FALSE]
    /\ toolDefs = {}
    /\ agentTools = {}
    /\ agentPrompt = None
    /\ toolCalls = 0
    /\ tokenRequests = <<>>
    /\ toolOutcome = NoOutcome
    /\ architecture_description = None
    /\ access_token = NoToken
    /\ session_id = None
    /\ i = 0
    /\ decodeLog = <<>>
    /\ posts = <<>>
    /\ response = NoResponse
    /\ callOutcome = NoOutcome
    /\ part_for_decode = <<>>
    /\ decoded = NotDecoded

Init ==
    /\ program \in {"batch", "stream", "identity"}
    /\ InitCommon
    /\ payload \in (IF program = "identity" THEN {EmptyObject} ELSE Payloads)
    /\ upstream \in (IF program = "stream" THEN SeqsUpTo(Events, MaxEvents) ELSE {<<>>})
    /\ upstreamEnd \in (IF program = "stream" THEN {"stop", "raise"} ELSE {"stop"})
    /\ configFile \in (IF program = "identity" THEN ConfigFiles
                       ELSE {[state |-> "missing", json |-> EmptyObject]})
    /\ part = <<>>

InitPad ==
    /\ program = "padding"
    /\ InitCommon
    /\ payload = EmptyObject
    /\ upstream = <<>>
    /\ upstreamEnd = "stop"
    /\ configFile = [state |-> "missing", json |-> EmptyObject]
    /\ part \in SeqsUpTo(B64Chars, MaxSegLen)

Next ==
    \/ BatchStart
    \/ BatchEstimateReturns
    \/ BatchEstimateRaises
    \/ StreamStart
    \/ StreamNext
    \/ StreamYield
    \/ StreamResume
    \/ StreamStop
    \/ StreamRaise
    \/ StreamCancel
    \/ LoadOpen
    \/ LoadProvider
    \/ LoadScope
    \/ LoadUrl
    \/ Decorate
    \/ Main
    \/ AgentCallsTool
    \/ TokenInjected
    \/ TokenFails
    \/ LogPart
    \/ LogDone
    \/ PostAnswered
    \/ PostFails
    \/ ToolReturn
    \/ AgentFinishes
    \/ AgentRaises

NextPad == PadApply \/ PadDecode

Spec == Init /\ [][Next]_vars

SpecPad == InitPad /\ [][NextPad]_vars

(* ------------------------------ claims --------------------------------- *)
DecodeErrors == {"binascii.Error", "UnicodeDecodeError", "JSONDecodeError"}

\* the body of _cost_estimator_with_auth ran and the call has ended
CallEnded == program = "identity" /\ pc = "tool_return" /\ session_id # None

PartsOf(t) == Split(t)

Success(status) == 200 <= status /\ status <= 299

\* C1: streaming invoke: at every point the events emitted to the caller are
\* a prefix of the upstream sequence, and when invoke finishes normally the
\* emitted sequence equals the upstream sequence.
C1_StreamOrder ==
    program = "stream" =>
        /\ IsPrefix(emitted, upstream)
        /\ (pc = "done" /\ outcome[1] = "return" => emitted = upstream)

C1_Witness ==
    /\ program = "stream" /\ pc = "done" /\ outcome[1] = "return"
    /\ upstream = <<"a", "b", "c">> /\ emitted = upstream

\* C2: batch invoke: for a payload with a prompt X the agent's batch
\* estimation is called exactly once, with X, and invoke ends with exactly
\* what that call returned or raised.
C2_BatchPassthrough ==
    program = "batch" /\ "prompt" \in DOMAIN payload =>
        /\ Len(calls) <= 1
        /\ pc = "done" =>
            /\ Len(calls) = 1
            /\ calls[1].op = "estimate_costs"
            /\ calls[1].arg = payload["prompt"]
            /\ outcome = calls[1].answer

C2_Witness ==
    /\ program = "batch" /\ pc = "done"
    /\ DOMAIN payload = {"prompt", "sessionId"}
    /\ payload["prompt"] = "p1" /\ payload["sessionId"] = "p2"
    /\ outcome = <<"return", "r2">>

\* C3: authenticated call: whenever the endpoint answers with a non-2xx
\* status or the transport fails, the call ends by raising, returns no
\* result and has issued exactly one POST.
C3_NonSuccessRaises ==
    CallEnded /\ ~Success(response.status) =>
        /\ callOutcome[1] = "raise"
        /\ Len(posts) = 1

\* C4: a decode failure on one of the first two segments never leaves
\* log_jwt_token_details, does not prevent the attempt on the other segment
\* and does not prevent the POST.
C4_DecodeFailureLocal ==
    /\ callOutcome[2] \notin DecodeErrors
    /\ (program = "identity" /\ pc \in {"post", "tool_return"}
            /\ Truthy(access_token)) =>
        Len(decodeLog) = Min(2, Len(PartsOf(access_token)))
    /\ CallEnded /\ Truthy(access_token) => Len(posts) = 1

C4_Witness ==
    /\ CallEnded /\ Len(decodeLog) = 2 /\ Len(posts) = 1
    /\ decodeLog[1].level = "error" /\ decodeLog[1].cause = "UnicodeDecodeError"
    /\ decodeLog[2].level = "info"

\* C5 as stated: for every string whose length is not a multiple of 4 the
\* padding adds 4 - (len mod 4) '=' characters and the padded string is
\* decodable base64.
C5_PaddedDecodable ==
    program = "padding" /\ pc = "decoded" /\ Len(part) % 4 # 0 =>
        /\ Len(part_for_decode) = Len(part) + (4 - (Len(part) % 4))
        /\ Len(part_for_decode) % 4 = 0
        /\ decoded.ok

\* C5 amended: for every string the padding appends (4 - len mod 4) mod 4
\* '=' characters, so the padded length is a multiple of 4; a string of
\* base64-alphabet characters then decodes exactly when len mod 4 is not 1.
C5_PaddingAmended ==
    program = "padding" /\ pc \in {"padded", "decoded"} =>
        /\ Len(part_for_decode) = Len(part) + ((4 - (Len(part) % 4)) % 4)
        /\ Len(part_for_decode) % 4 = 0
        /\ SubSeq(part_for_decode, 1, Len(part)) = part
        /\ \A k \in (Len(part) + 1)..Len(part_for_decode) : part_for_decode[k] = "="
        /\ (pc = "decoded" /\ \A k \in 1..Len(part) : part[k] = "A") =>
            (decoded.ok <=> Len(part) % 4 # 1)

C5_Witness ==
    /\ program = "padding" /\ pc = "decoded"
    /\ part = <<"A", "A", "A", "A", "A">>
    /\ Len(part_for_decode) = 8 /\ ~decoded.ok

\* C6: whatever the number of dot-separated segments of the token, decodes
\* are attempted only on segments 0 and 1, in that order, at most once
\* each; the signature segment and any later segment is never decoded.
C6_OnlyFirstTwo ==
    program = "identity" =>
        /\ Len(decodeLog) <= 2
        /\ \A k \in 1..Len(decodeLog) :
            /\ decodeLog[k].index = k - 1
            /\ k <= Len(PartsOf(access_token))
            /\ SubSeq(decodeLog[k].input, 1, Len(PartsOf(access_token)[k]))
                    = PartsOf(access_token)[k]
        /\ (pc = "post" /\ Truthy(access_token)) =>
            Len(decodeLog) = Min(2, Len(PartsOf(access_token)))

C6_Witness ==
    /\ program = "identity" /\ pc = "post"
    /\ access_token = <<"A", "A", ".", "A", ".", "A">>
    /\ Len(decodeLog) = 2 /\ decodeLog[2].input = <<"A", "=", "=", "=">>

\* C7: every run of the body of _cost_estimator_with_auth issues exactly
\* one POST to the configured URL, after the token diagnostics; the request
\* carries 'Bearer <token>', the JSON content type, the prompt as body and
\* the same session identifier as session header and as trace header; on a
\* 2xx answer the response text is returned unchanged.
C7_SinglePost ==
    /\ Len(posts) <= 1
    /\ (program = "identity" /\ pc = "log") => posts = <<>>
    /\ (program = "identity" /\ Len(posts) = 1 /\ Truthy(access_token)) =>
        Len(decodeLog) = Min(2, Len(PartsOf(access_token)))
    /\ CallEnded =>
        /\ Len(posts) = 1
        /\ posts[1].url = RUNTIME_URL
        /\ posts[1].url = configFile.json["runtime"]["url"]
        /\ posts[1].headers.Authorization = <<"Bearer ">> \o Format(access_token)
        /\ posts[1].headers.ContentType = "application/json"
        /\ posts[1].headers.SessionId = session_id
        /\ posts[1].headers.TraceId = posts[1].headers.SessionId
        /\ posts[1].data = <<"{\"prompt\": \"", architecture_description, "\"}">>
        /\ Success(response.status) => callOutcome = <<"return", response.text>>

C7_Witness ==
    /\ CallEnded /\ Truthy(access_token)
    /\ response.status = 204 /\ callOutcome = <<"return", "estimate">>
    /\ Len(posts) = 1

\* C8: the config file is opened at most once, before anything else; with
\* a missing or unreadable file or a missing key the run ends in the fatal
\* state and no decorator, tool, agent, token request or POST ever happens;
\* after a successful load the three constants hold the three values of
\* the file for the rest of the run.
LoadStages == {"start", "provider", "scope", "url", "fatal"}

ConfigComplete ==
    /\ configFile.state = "ok"
    /\ \A s \in SectionNames : HasKey(configFile.json, s, Section[s])

C8_ConfigOnce ==
    program = "identity" =>
        /\ configReads <= 1
        /\ pc # "start" /\ pc # "fatal" => configReads = 1
        /\ ~ConfigComplete => pc \in LoadStages
        /\ pc \in LoadStages =>
            /\ toolDefs = {} /\ agentTools = {} /\ agentPrompt = None
            /\ binding.provider_name = "" /\ toolCalls = 0
            /\ tokenRequests = <<>> /\ posts = <<>>
        /\ pc \notin LoadStages =>
            /\ OAUTH_PROVIDER = configFile.json["provider"]["name"]
            /\ OAUTH_SCOPE = configFile.json["cognito"]["scope"]
            /\ RUNTIME_URL = configFile.json["runtime"]["url"]

C8_Witness ==
    /\ program = "identity" /\ pc = "fatal"
    /\ configFile.state = "ok" /\ "provider" \in DOMAIN configFile.json
    /\ ~HasKey(configFile.json, "runtime", "url")
    /\ OAUTH_PROVIDER = "prov" /\ OAUTH_SCOPE = "scope1" /\ RUNTIME_URL = ""

\* C9: the tool declares only the architecture description; the bearer
\* value of the POST is the injected token whatever argument the calling
\* agent supplied, and the tool hands back exactly what the authenticated
\* call returned or raised.
C9_TokenHidden ==
    program = "identity" =>
        /\ \A t \in agentTools : t.params = {"architecture_description"}
        /\ \A k \in 1..Len(posts) : \A a \in Archs :
            /\ posts[k].headers.Authorization
                 = Headers(access_token, session_id).Authorization
            /\ Request(RUNTIME_URL, access_token, session_id, a).headers
                 = posts[k].headers
        /\ (pc = "agent" /\ toolCalls > 0) => toolOutcome = callOutcome

C9_Witness ==
    /\ program = "identity" /\ pc = "agent" /\ toolCalls > 0
    /\ toolOutcome = <<"return", "estimate">>

\* C10: with an absent or empty token the diagnostics are skipped and the
\* POST is still issued, its Authorization header built from that value.
C10_PostWithoutToken ==
    /\ (program = "identity" /\ access_token \in {NoToken, <<>>}) =>
        (pc # "log" /\ decodeLog = <<>>)
    /\ (CallEnded /\ access_token \in {NoToken, <<>>}) =>
        /\ Len(posts) = 1
        /\ posts[1].headers.Authorization =
             IF access_token = NoToken THEN <<"Bearer ", "N", "o", "n", "e">>
             ELSE <<"Bearer ">>

C10_Witness ==
    /\ CallEnded /\ access_token = NoToken /\ Len(posts) = 1
    /\ posts[1].headers.Authorization = <<"Bearer ", "N", "o", "n", "e">>

=============================================================================
